---------------------------- MODULE Spec2Model ----------------------------
(***************************************************************************)
(* Model of crude_master_bot.py: a single-threaded tick loop that runs     *)
(* five alert detectors (session open, 1h volatility, RSI extreme, false   *)
(* breakout, news keywords) and two scheduled inventory sequences, with a  *)
(* module-level dictionary `state` as the anti-spam ledger.                *)
(*                                                                         *)
(* Time is wall-clock seconds (local time, Asia/Kolkata has no DST) since  *)
(* a Monday 00:00:00.  Prices are integers in cents, percentages are       *)
(* integers in hundredths of a percent, RSI is an exact fraction.          *)
(***************************************************************************)
EXTENDS Integers, Sequences, FiniteSets

VARIABLES
    now,     \* wall clock, as read by datetime.now(TZ)
    loop_now,\* main's local variable `now`, read at the top of an iteration
    ticks,   \* number of detector invocations / loop iterations so far
    pc,      \* position of the process (main loop) or "crashed"
    state,   \* the module-level dictionary `state`
    inv,     \* locals of the inventory() call in progress
    sent,    \* messages handed to the sink by the latest step
    bars,    \* price series fetched by the latest step (get_data)
    feed,    \* feed entries fetched by the latest step (feedparser.parse)
    hist     \* history of earlier steps, read only by the properties

vars == <<now, loop_now, ticks, pc, state, inv, sent, bars, feed, hist>>

-----------------------------------------------------------------------------
(* Program constants *)

None == -1                  \* Python None in a timestamp slot

VOL_1H_THRESHOLD == 120     \* 1.2 %, in hundredths of a percent
RSI_OVERBOUGHT == 70
RSI_OVERSOLD == 30
RSI_PERIOD == 14            \* compute_rsi(series, period=14)
VOL_COOLDOWN == 3600        \* timedelta(hours=1)
RSI_COOLDOWN == 7200        \* timedelta(hours=2)
FB_COOLDOWN == 1800         \* timedelta(minutes=30)
NEWS_BACKLOG == 7200        \* timedelta(hours=2) of the initial watermark
ASIA_HOUR == 6
EU_HOUR == 13
US_HOUR == 18
RESET_HOUR == 0
TICK_SLEEP == 30            \* time.sleep(30) at the end of an iteration

HourSecs == 60 * 60
DaySecs == 24 * HourSecs

(* datetime fields of a clock reading *)
hour(t) == (t \div HourSecs) % 24
minute(t) == (t \div 60) % 60
weekday(t) == (t \div DaySecs) % 7      \* Monday is 0
date(t) == t \div DaySecs

-----------------------------------------------------------------------------
(* The ledger *)

NoCall == [name |-> "none"]

InitState(start) ==
    [ asia_alerted     |-> FALSE,
      eu_alerted       |-> FALSE,
      us_alerted       |-> FALSE,
      last_1h_vol      |-> None,
      last_rsi_alert   |-> None,
      false_level      |-> None,
      false_break_time |-> None,
      last_news_time   |-> start - NEWS_BACKLOG ]

(* The running result of a function body: the ledger so far, the messages  *)
(* sent so far, and whether an exception is propagating.                   *)
Running(st) == [state |-> st, sent |-> <<>>, raised |-> FALSE]

Raise(r) == [r EXCEPT !.raised = TRUE]

(* send(msg): requests.post to the sink.  It has no try/except: when the   *)
(* sink is unreachable the exception propagates to the caller.             *)
send(r, msg, sinkUp) ==
    IF r.raised THEN r
    ELSE IF sinkUp THEN [r EXCEPT !.sent = Append(@, msg)]
    ELSE Raise(r)

(* An assignment state[key] = value, skipped when an exception propagates. *)
Assign(r, st) == IF r.raised THEN r ELSE [r EXCEPT !.state = st]

-----------------------------------------------------------------------------
(* Session alerts *)

session_alerts(st, t, sinkUp) ==
    LET r0 == Running(st)
        r1 == IF hour(t) = ASIA_HOUR /\ ~r0.state.asia_alerted
              THEN LET s == send(r0, [kind |-> "ASIA"], sinkUp)
                   IN  Assign(s, [s.state EXCEPT !.asia_alerted = TRUE])
              ELSE r0
        r2 == IF ~r1.raised /\ hour(t) = EU_HOUR /\ ~r1.state.eu_alerted
              THEN LET s == send(r1, [kind |-> "EUROPE"], sinkUp)
                   IN  Assign(s, [s.state EXCEPT !.eu_alerted = TRUE])
              ELSE r1
        r3 == IF ~r2.raised /\ hour(t) = US_HOUR /\ ~r2.state.us_alerted
              THEN LET s == send(r2, [kind |-> "US"], sinkUp)
                   IN  Assign(s, [s.state EXCEPT !.us_alerted = TRUE])
              ELSE r2
        r4 == IF ~r3.raised /\ hour(t) = RESET_HOUR
              THEN Assign(r3, [r3.state EXCEPT !.asia_alerted = FALSE,
                                               !.eu_alerted = FALSE,
                                               !.us_alerted = FALSE])
              ELSE r3
    IN  r4


-----------------------------------------------------------------------------
(* Data helpers *)

(* A fetch result of get_data: ok is FALSE when the fetch itself raised,   *)
(* rows is the DataFrame, a sequence of bars [High, Close], oldest first.  *)
Fetched(rows) == [ok |-> TRUE, rows |-> rows]
FetchError == [ok |-> FALSE, rows |-> <<>>]

abs(x) == IF x < 0 THEN -x ELSE x

(* round(x, 2) of the fraction n/d (d > 0), in hundredths: nearest, ties   *)
(* to even.                                                                *)
round2(n, d) ==
    LET q == n \div d
        rem == n % d
    IN  IF 2 * rem < d THEN q
        ELSE IF 2 * rem > d THEN q + 1
        ELSE IF q % 2 = 0 THEN q ELSE q + 1

(* pct(a, b) = round(((b - a) / a) * 100, 2), in hundredths of a percent;  *)
(* a > 0 (a price).                                                        *)
pct(a, b) == round2((b - a) * 10000, a)

-----------------------------------------------------------------------------
(* RSI *)

(* series.diff(), clipped: the gain and the loss of step i (i >= 2) *)
Delta(series, i) == series[i] - series[i - 1]
Gain(series, i) == IF Delta(series, i) > 0 THEN Delta(series, i) ELSE 0
Loss(series, i) == IF Delta(series, i) < 0 THEN -Delta(series, i) ELSE 0

RECURSIVE SumGain(_, _, _)
SumGain(series, lo, hi) ==
    IF lo > hi THEN 0 ELSE Gain(series, hi) + SumGain(series, lo, hi - 1)

RECURSIVE SumLoss(_, _, _)
SumLoss(series, lo, hi) ==
    IF lo > hi THEN 0 ELSE Loss(series, hi) + SumLoss(series, lo, hi - 1)

NaN == [nan |-> TRUE, num |-> 0, den |-> 1]
Frac(n, d) == [nan |-> FALSE, num |-> n, den |-> d]

(* Comparisons of an RSI value with an integer; every comparison with NaN  *)
(* is False.                                                               *)
GE(r, c) == ~r.nan /\ r.num >= c * r.den
LE(r, c) == ~r.nan /\ r.num <= c * r.den

(* compute_rsi(series, period): the RSI series.  delta[1] is NaN, so the   *)
(* rolling mean over `period` differences exists from index period + 1 on. *)
(* With G, L the window sums of gains and losses: rs = G / L and           *)
(* 100 - 100 / (1 + rs) is 100 G / (G + L) for L > 0, 100 for rs = inf     *)
(* (L = 0 < G) and NaN for rs = 0 / 0.                                     *)
compute_rsi(series, period) ==
    [i \in 1..Len(series) |->
        IF i < period + 1 THEN NaN
        ELSE LET G == SumGain(series, i - period + 1, i)
                 L == SumLoss(series, i - period + 1, i)
             IN  IF G + L = 0 THEN NaN ELSE Frac(100 * G, G + L)]

Closes(rows) == [i \in 1..Len(rows) |-> rows[i].Close]

-----------------------------------------------------------------------------
(* 1h volatility *)

(* check_1h_vol without the cooldown test *)
check_1h_vol_no_cooldown(st, data, t, sinkUp) ==
    LET r0 == Running(st)
        n == Len(data.rows)
    IN  IF ~data.ok THEN Raise(r0)
        ELSE IF n < 2 THEN r0
        ELSE LET move == pct(data.rows[n - 1].Close, data.rows[n].Close)
             IN  IF abs(move) >= VOL_1H_THRESHOLD
                 THEN LET s == send(r0, [kind |-> "VOL", move |-> move], sinkUp)
                      IN  Assign(s, [s.state EXCEPT !.last_1h_vol = t])
                 ELSE r0

check_1h_vol(st, data, t, sinkUp) ==
    LET r0 == Running(st)
        n == Len(data.rows)
    IN  IF ~data.ok THEN Raise(r0)
        ELSE IF n < 2 THEN r0
        ELSE LET prev == data.rows[n - 1].Close
                 last == data.rows[n].Close
                 move == pct(prev, last)
             IN  IF abs(move) >= VOL_1H_THRESHOLD
                    /\ (st.last_1h_vol = None \/ t - st.last_1h_vol > VOL_COOLDOWN)
                 THEN LET s == send(r0, [kind |-> "VOL", move |-> move], sinkUp)
                      IN  Assign(s, [s.state EXCEPT !.last_1h_vol = t])
                 ELSE r0

-----------------------------------------------------------------------------
(* RSI alerts *)

(* One of the two `if` blocks of rsi_alert: when the RSI is past the       *)
(* threshold (hit) and no RSI alert was sent in the last two hours, send   *)
(* the alert and record its time.                                          *)
(* The `if` block recording the alert time under the volatility key *)
rsi_branch_vol_key(r, hit, kind, t, sinkUp) ==
    IF ~r.raised /\ hit
       /\ (r.state.last_rsi_alert = None
           \/ t - r.state.last_rsi_alert > RSI_COOLDOWN)
    THEN LET s == send(r, [kind |-> kind], sinkUp)
         IN  Assign(s, [s.state EXCEPT !.last_1h_vol = t])
    ELSE r

rsi_branch(r, hit, kind, t, sinkUp) ==
    IF ~r.raised /\ hit
       /\ (r.state.last_rsi_alert = None
           \/ t - r.state.last_rsi_alert > RSI_COOLDOWN)
    THEN LET s == send(r, [kind |-> kind], sinkUp)
         IN  Assign(s, [s.state EXCEPT !.last_rsi_alert = t])
    ELSE r

rsi_alert(st, data, t, sinkUp) ==
    LET r0 == Running(st)
        n == Len(data.rows)
    IN  IF ~data.ok THEN Raise(r0)
        ELSE IF n = 0 THEN Raise(r0)              \* .iloc[-1] of an empty series
        ELSE LET rsi == compute_rsi(Closes(data.rows), RSI_PERIOD)[n]
             IN  rsi_branch(
                     rsi_branch(r0, GE(rsi, RSI_OVERBOUGHT), "RSI_OVERBOUGHT", t, sinkUp),
                     LE(rsi, RSI_OVERSOLD), "RSI_OVERSOLD", t, sinkUp)

-----------------------------------------------------------------------------
(* False breakout *)

FB_WINDOW == 50

Max(S) == CHOOSE x \in S : \A y \in S : y <= x

(* The window ending before the closed candle, iloc[-50:-2]; the maximum   *)
(* of an empty window is NaN, which no High exceeds.                       *)
PrevHighBeforeCandle(rows) ==
    LET n == Len(rows)
        lo == IF n - FB_WINDOW + 1 < 1 THEN 1 ELSE n - FB_WINDOW + 1
    IN  IF n - 2 < lo THEN rows[n - 1].High
        ELSE Max({rows[i].High : i \in lo..(n - 2)})

(* data["High"].iloc[-50:-1].max(): the bars from the 50th-last up to the  *)
(* second-last one.                                                        *)
PrevHigh(rows) ==
    LET n == Len(rows)
        lo == IF n - FB_WINDOW + 1 < 1 THEN 1 ELSE n - FB_WINDOW + 1
    IN  Max({rows[i].High : i \in lo..(n - 1)})

false_breakout(st, data, t, sinkUp) ==
    LET r0 == Running(st)
        n == Len(data.rows)
    IN  IF ~data.ok THEN Raise(r0)
        ELSE IF n < 2 THEN Raise(r0)              \* data.iloc[-2]
        ELSE LET prev_high == PrevHigh(data.rows)
                 candle == data.rows[n - 1]
             IN  IF st.false_break_time # None
                    /\ t - st.false_break_time < FB_COOLDOWN
                 THEN r0
                 ELSE IF candle.High > prev_high /\ candle.Close < prev_high
                 THEN LET s == send(r0, [kind |-> "FALSE_BREAKOUT",
                                         level |-> prev_high], sinkUp)
                      IN  Assign(s, [s.state EXCEPT !.false_break_time = t])
                 ELSE r0


-----------------------------------------------------------------------------
(* History kept for the properties *)

Sessions == {"ASIA", "EUROPE", "US"}
NoAlerts == [k \in Sessions |-> 0]

Count(msgs, k) == Cardinality({i \in 1..Len(msgs) : msgs[i].kind = k})

HistInit(start) ==
    [ day       |-> None,       \* calendar day of the latest tick
      covered   |-> FALSE,      \* that day's ticks began before the Asia open
      cnt       |-> NoAlerts,   \* session alerts sent so far on that day
      done      |-> [valid |-> FALSE, cnt |-> NoAlerts],
                                \* the latest day the ticks stepped through
      before    |-> InitState(start),  \* the ledger before the latest step
      vol_at    |-> None,       \* time of the latest volatility alert
      vol_prev  |-> None,       \* time of the volatility alert before it
      rsi_bucket |-> "unset",   \* RSI bucket at the latest tick
      rsi_prev  |-> "unset",    \* RSI bucket at the tick before it
      rsi_stay  |-> 0,          \* alerts sent during the current stay in rsi_bucket
      step      |-> "none",     \* the step of main taken latest
      starts    |-> <<>>,       \* the inventory sequences started: name, time
      headlines |-> <<>> ]      \* the headline alerts sent so far

(* The session history after a tick at time t that sent msgs. *)
SessionHist(h, t, msgs) ==
    LET got == [k \in Sessions |-> Count(msgs, k)]
    IN  IF date(t) = h.day
        THEN [h EXCEPT !.cnt = [k \in Sessions |-> @[k] + got[k]]]
        ELSE [h EXCEPT !.day = date(t),
                       !.covered = hour(t) < ASIA_HOUR,
                       !.cnt = got,
                       !.done = [valid |-> h.day # None /\ h.covered
                                            /\ date(t) = h.day + 1,
                                 cnt |-> h.cnt]]

-----------------------------------------------------------------------------
(* Specification SpecSession: session_alerts(now) called tick after tick.  *)
(* A tick follows the previous one after the 30 s sleep, or later when the *)
(* iteration in between was held up (the fetches and the sink have no      *)
(* timeout, the inventory sequence blocks for 75 minutes).                 *)

MaxSessionTicks == 16
SessionGaps == {TICK_SLEEP, HourSecs, 2 * HourSecs}
SessionStarts == {2 * HourSecs, 6 * HourSecs - TICK_SLEEP, 23 * HourSecs}

InitSession ==
    /\ now \in SessionStarts
    /\ loop_now = now
    /\ ticks = 0
    /\ pc = "running"
    /\ inv = NoCall
    /\ state = InitState(now)
    /\ sent = <<>>
    /\ bars = Fetched(<<>>)
    /\ feed = <<>>
    /\ hist = HistInit(now)

SessionTick ==
    /\ pc = "running"
    /\ ticks < MaxSessionTicks
    /\ \E gap \in SessionGaps, sinkUp \in BOOLEAN :
          \E t \in {now + gap} : \E r \in {session_alerts(state, t, sinkUp)} :
              /\ now' = t
              /\ ticks' = ticks + 1
              /\ state' = r.state
              /\ sent' = r.sent
              /\ pc' = IF r.raised THEN "crashed" ELSE "running"
              /\ hist' = SessionHist(hist, t, r.sent)
              /\ UNCHANGED <<loop_now, inv, bars, feed>>

NextSession == SessionTick

SpecSession == InitSession /\ [][NextSession]_vars

(* C1: on every calendar day the ticks step through, each of the three     *)
(* session alerts is emitted exactly once, whatever the tick frequency.    *)
C1_EachSessionOncePerDay ==
    /\ \A k \in Sessions : hist.cnt[k] <= 1
    /\ hist.done.valid => \A k \in Sessions : hist.done.cnt[k] = 1

(* The open hour of a session *)
OpenHour(k) ==
    IF k = "ASIA" THEN ASIA_HOUR ELSE IF k = "EUROPE" THEN EU_HOUR ELSE US_HOUR

(* C15: a session's alert is triggered by the first tick of the day at or  *)
(* after its open time, also when that tick falls in a later hour, and a   *)
(* flag set on an earlier day does not suppress it: after a tick at or     *)
(* after the open hour the session's alert of that day has been sent.      *)
C15_EdgeTriggered ==
    (pc = "running" /\ hist.day = date(now))
        => \A k \in Sessions : hour(now) >= OpenHour(k) => hist.cnt[k] >= 1


-----------------------------------------------------------------------------
(* Specification SpecVol: check_1h_vol() called tick after tick on freshly *)
(* fetched 1h bars.                                                        *)

MaxVolTicks == 4
MaxBars1h == 3
BasePrice == 100 * 100          \* 100.00, in cents
Prices1h == {BasePrice, BasePrice + 119, BasePrice + 120, BasePrice - 120}
VolGaps == {TICK_SLEEP, HourSecs \div 2, HourSecs}
VolStarts == {2 * HourSecs}

Bar(p) == [High |-> p, Close |-> p]

(* n bars at the base price *)
Flat(n) == [i \in 1..n |-> Bar(BasePrice)]

(* The 1h series: nothing, one bar, or up to MaxBars1h bars whose last two *)
(* closes range over Prices1h (the bars before them are at the base price).*)
Rows1h ==
    {<<>>} \cup {<<Bar(p)>> : p \in Prices1h}
           \cup {Flat(n - 2) \o <<Bar(p), Bar(q)>> :
                    n \in 2..MaxBars1h, p \in Prices1h, q \in Prices1h}

Bars1h == {Fetched(rows) : rows \in Rows1h} \cup {FetchError}

(* The move of the last two bars qualifies for a volatility alert. *)
Qualifies(data) ==
    /\ data.ok
    /\ Len(data.rows) >= 2
    /\ abs(pct(data.rows[Len(data.rows) - 1].Close,
               data.rows[Len(data.rows)].Close)) >= VOL_1H_THRESHOLD

VolHist(h, st, t, msgs) ==
    IF Count(msgs, "VOL") > 0
    THEN [h EXCEPT !.before = st, !.vol_at = t, !.vol_prev = h.vol_at]
    ELSE [h EXCEPT !.before = st]

InitVol ==
    /\ now \in VolStarts
    /\ loop_now = now
    /\ ticks = 0
    /\ pc = "running"
    /\ inv = NoCall
    /\ state = InitState(now)
    /\ sent = <<>>
    /\ bars = Fetched(<<>>)
    /\ feed = <<>>
    /\ hist = HistInit(now)

VolTick ==
    /\ pc = "running"
    /\ ticks < MaxVolTicks
    /\ \E gap \in VolGaps, data \in Bars1h, sinkUp \in BOOLEAN :
          \E t \in {now + gap} : \E r \in {check_1h_vol(state, data, t, sinkUp)} :
              /\ now' = t
              /\ ticks' = ticks + 1
              /\ bars' = data
              /\ state' = r.state
              /\ sent' = r.sent
              /\ pc' = IF r.raised THEN "crashed" ELSE "running"
              /\ hist' = VolHist(hist, state, t, r.sent)
              /\ UNCHANGED <<loop_now, inv, feed>>

NextVol == VolTick

SpecVol == InitVol /\ [][NextVol]_vars

(* The latest invocation came less than the cooldown after the latest      *)
(* volatility alert.                                                       *)
VolInCooldown ==
    /\ ticks > 0
    /\ hist.before.last_1h_vol # None
    /\ now - hist.before.last_1h_vol < VOL_COOLDOWN

(* C4: an invocation less than the cooldown after a volatility alert emits *)
(* no alert and leaves last_1h_vol unchanged, even on a qualifying move;   *)
(* two consecutive volatility alerts are at least the cooldown apart.      *)
C4_VolCooldown ==
    /\ hist.vol_at = state.last_1h_vol
    /\ VolInCooldown => sent = <<>> /\ state.last_1h_vol = hist.before.last_1h_vol
    /\ hist.vol_prev # None => hist.vol_at - hist.vol_prev >= VOL_COOLDOWN

C4_Witness ==
    /\ VolInCooldown
    /\ Qualifies(bars)
    /\ pc = "running"
    /\ sent = <<>>

(* C5: an invocation with at least two bars emits an alert and sets        *)
(* last_1h_vol = now if and only if the move qualifies and the detector    *)
(* has never fired or at least the cooldown (exactly 3600 s included) has  *)
(* elapsed since last_1h_vol.                                              *)
C5_VolFiresIff ==
    (ticks > 0 /\ pc = "running" /\ bars.ok /\ Len(bars.rows) >= 2) =>
        ( (Count(sent, "VOL") = 1 /\ state.last_1h_vol = now)
          <=> ( /\ Qualifies(bars)
                /\ \/ hist.before.last_1h_vol = None
                   \/ now - hist.before.last_1h_vol >= VOL_COOLDOWN ) )


-----------------------------------------------------------------------------
(* Specification SpecRsi: rsi_alert() called tick after tick on freshly    *)
(* fetched 15m bars.                                                       *)

MaxRsiTicks == 4
RsiGaps == {TICK_SLEEP, HourSecs, 2 * HourSecs}
RsiStarts == {2 * HourSecs}

(* period + 1 closes: `ups` rises of `a` followed by falls of `b`. *)
Saw(ups, a, b) ==
    [i \in 1..(RSI_PERIOD + 1) |->
        Bar(IF i - 1 <= ups THEN BasePrice + (i - 1) * a
            ELSE BasePrice + ups * a - (i - 1 - ups) * b)]

(* RSI of Saw(7, 1, 1) is 50, of Saw(7, 3, 1) 75, of Saw(8, 3, 1) 80, of   *)
(* Saw(6, 1, 3) 20; Saw(7, 0, 0) is constant, Saw(14, 1, 1) only rises.    *)
RsiUps == {6, 7, 8}
RsiSteps == {<<1, 1>>, <<3, 1>>, <<1, 3>>}
Rows15m ==
    {Saw(k, ab[1], ab[2]) : k \in RsiUps, ab \in RsiSteps}
        \cup {Saw(7, 0, 0), Saw(RSI_PERIOD, 1, 1), Saw(0, 1, 1)}
        \cup {<<>>, Flat(1), Flat(RSI_PERIOD)}

Bars15m == {Fetched(rows) : rows \in Rows15m} \cup {FetchError}

LastRsi(data) == compute_rsi(Closes(data.rows), RSI_PERIOD)[Len(data.rows)]

Bucket(rsi) ==
    IF GE(rsi, RSI_OVERBOUGHT) THEN "overbought"
    ELSE IF LE(rsi, RSI_OVERSOLD) THEN "oversold"
    ELSE "neutral"

Extreme == {"overbought", "oversold"}

RsiHist(h, st, data, msgs) ==
    IF ~data.ok \/ Len(data.rows) = 0 THEN [h EXCEPT !.before = st]
    ELSE LET b == Bucket(LastRsi(data))
         IN  [h EXCEPT !.before = st,
                       !.rsi_prev = h.rsi_bucket,
                       !.rsi_bucket = b,
                       !.rsi_stay = IF b \in Extreme /\ b = h.rsi_bucket
                                    THEN @ + Len(msgs) ELSE Len(msgs)]

InitRsi ==
    /\ now \in RsiStarts
    /\ loop_now = now
    /\ ticks = 0
    /\ pc = "running"
    /\ inv = NoCall
    /\ state = InitState(now)
    /\ sent = <<>>
    /\ bars = Fetched(<<>>)
    /\ feed = <<>>
    /\ hist = HistInit(now)

RsiTick ==
    /\ pc = "running"
    /\ ticks < MaxRsiTicks
    /\ \E gap \in RsiGaps, data \in Bars15m, sinkUp \in BOOLEAN :
          \E t \in {now + gap} : \E r \in {rsi_alert(state, data, t, sinkUp)} :
              /\ now' = t
              /\ ticks' = ticks + 1
              /\ bars' = data
              /\ state' = r.state
              /\ sent' = r.sent
              /\ pc' = IF r.raised THEN "crashed" ELSE "running"
              /\ hist' = RsiHist(hist, state, data, r.sent)
              /\ UNCHANGED <<loop_now, inv, feed>>

NextRsi == RsiTick

SpecRsi == InitRsi /\ [][NextRsi]_vars

(* C2: while the RSI stays in one extreme bucket tick after tick, at most  *)
(* one alert is emitted, however long the stay lasts.                      *)
C2_NoRefireInBucket ==
    hist.rsi_bucket \in Extreme => hist.rsi_stay <= 1

(* C3: a tick that finds the RSI in an extreme bucket after a tick that    *)
(* found it in another bucket emits exactly one alert, however recent the  *)
(* previous RSI alert is.                                                  *)
C3_FiresOnEveryEntry ==
    ( /\ pc = "running"
      /\ hist.rsi_bucket \in Extreme
      /\ hist.rsi_prev \notin {hist.rsi_bucket, "unset"} )
        => Len(sent) = 1

(* The rolling window of the last bar holds no loss (avg_loss == 0). *)
NoLossWindow(data) ==
    /\ data.ok
    /\ Len(data.rows) >= RSI_PERIOD + 1
    /\ SumLoss(Closes(data.rows), Len(data.rows) - RSI_PERIOD + 1, Len(data.rows)) = 0

(* C12: when the window of the last bar holds no loss (a constant or a     *)
(* strictly rising series), compute_rsi gives 100 for the last bar, not    *)
(* an undefined value.                                                     *)
C12_SaturatesAt100 ==
    NoLossWindow(bars) =>
        /\ ~LastRsi(bars).nan
        /\ LastRsi(bars).num = 100 * LastRsi(bars).den


-----------------------------------------------------------------------------
(* Specification SpecFB: false_breakout() called tick after tick on        *)
(* freshly fetched 5m bars.                                                *)

MaxFBTicks == 4
MaxBars5m == 3
FBGaps == {TICK_SLEEP, FB_COOLDOWN \div 3, FB_COOLDOWN}
FBStarts == {2 * HourSecs}

(* A quiet bar, a bar that sweeps above the base price and closes below    *)
(* it, and a bar that breaks above the base price and holds.               *)
Bars5mKinds ==
    { [High |-> BasePrice,      Close |-> BasePrice - 10],
      [High |-> BasePrice + 50, Close |-> BasePrice - 10],
      [High |-> BasePrice + 50, Close |-> BasePrice + 40] }

RECURSIVE SeqsUpTo(_, _)
SeqsUpTo(S, n) ==
    IF n = 0 THEN {<<>>}
    ELSE LET shorter == SeqsUpTo(S, n - 1)
         IN  shorter \cup {Append(q, x) : q \in {q \in shorter : Len(q) = n - 1}, x \in S}

Bars5m == {Fetched(rows) : rows \in SeqsUpTo(Bars5mKinds, MaxBars5m)} \cup {FetchError}

InitFB ==
    /\ now \in FBStarts
    /\ loop_now = now
    /\ ticks = 0
    /\ pc = "running"
    /\ inv = NoCall
    /\ state = InitState(now)
    /\ sent = <<>>
    /\ bars = Fetched(<<>>)
    /\ feed = <<>>
    /\ hist = HistInit(now)

FBTick ==
    /\ pc = "running"
    /\ ticks < MaxFBTicks
    /\ \E gap \in FBGaps, data \in Bars5m, sinkUp \in BOOLEAN :
          \E t \in {now + gap} : \E r \in {false_breakout(state, data, t, sinkUp)} :
              /\ now' = t
              /\ ticks' = ticks + 1
              /\ bars' = data
              /\ state' = r.state
              /\ sent' = r.sent
              /\ pc' = IF r.raised THEN "crashed" ELSE "running"
              /\ hist' = [hist EXCEPT !.before = state]
              /\ UNCHANGED <<loop_now, inv, feed>>

NextFB == FBTick

SpecFB == InitFB /\ [][NextFB]_vars

(* The reference high of a sweep: the highest High of the bars before the  *)
(* latest closed bar (the second-last row) inside the lookback window.     *)
RefHigh(rows) ==
    LET n == Len(rows)
        lo == IF n - FB_WINDOW + 1 < 1 THEN 1 ELSE n - FB_WINDOW + 1
    IN  Max({rows[i].High : i \in lo..(n - 2)})

(* The latest closed bar went above the reference high and closed below it *)
Sweep(rows) ==
    /\ Len(rows) >= 3
    /\ rows[Len(rows) - 1].High > RefHigh(rows)
    /\ rows[Len(rows) - 1].Close < RefHigh(rows)

FBInCooldown ==
    /\ hist.before.false_break_time # None
    /\ now - hist.before.false_break_time < FB_COOLDOWN

(* C6: when the latest closed bar sweeps the reference high and no         *)
(* false-breakout alert was sent in the preceding cooldown window, exactly *)
(* one alert is emitted and its time recorded; a sweep seen inside the     *)
(* cooldown window emits nothing.                                          *)
C6_SweepFiresOnce ==
    (ticks > 0 /\ pc = "running" /\ bars.ok /\ Sweep(bars.rows)) =>
        IF FBInCooldown
        THEN sent = <<>>
        ELSE Count(sent, "FALSE_BREAKOUT") = 1 /\ state.false_break_time = now

(* C20: the window of prev_high contains the closed candle, so prev_high is *)
(* never below the candle's High, and false_break_time and false_level     *)
(* hold None in every reachable state.                                     *)
C20_NeverFires ==
    /\ state.false_break_time = None
    /\ state.false_level = None
    /\ (bars.ok /\ Len(bars.rows) >= 2)
          => PrevHigh(bars.rows) >= bars.rows[Len(bars.rows) - 1].High

(* false_breakout has run on a bar that went above the earlier highs and   *)
(* closed below them, and sent nothing.                                    *)
C20_Witness ==
    /\ ticks > 0
    /\ pc = "running"
    /\ bars.ok
    /\ Sweep(bars.rows)
    /\ sent = <<>>
    /\ state.false_break_time = None


-----------------------------------------------------------------------------
(* News *)

TZ_OFFSET == 19800          \* Asia/Kolkata is UTC+05:30

(* The UTC publish time of an entry as an aware datetime in TZ, read on    *)
(* the local clock of the model.                                           *)
astimezone(utc) == utc + TZ_OFFSET

NEWS_FIRST == 5             \* feed.entries[:5]

(* Strings are sequences of characters. *)
UpperCase == <<"A", "B", "C", "D", "E", "F", "G", "H", "I", "J", "K", "L", "M",
               "N", "O", "P", "Q", "R", "S", "T", "U", "V", "W", "X", "Y", "Z">>
LowerCase == <<"a", "b", "c", "d", "e", "f", "g", "h", "i", "j", "k", "l", "m",
               "n", "o", "p", "q", "r", "s", "t", "u", "v", "w", "x", "y", "z">>

lower_char(c) ==
    IF \E i \in 1..Len(UpperCase) : UpperCase[i] = c
    THEN LowerCase[CHOOSE i \in 1..Len(UpperCase) : UpperCase[i] = c]
    ELSE c

(* str.lower() *)
lower(str) == [i \in 1..Len(str) |-> lower_char(str[i])]

(* k in str *)
Contains(str, k) ==
    \E i \in 0..(Len(str) - Len(k)) : SubSeq(str, i + 1, i + Len(k)) = k

NEWS_KEYWORDS ==
    << <<"o", "i", "l">>,
       <<"O", "P", "E", "C">>,
       <<"p", "i", "p", "e", "l", "i", "n", "e">>,
       <<"r", "e", "f", "i", "n", "e", "r", "y">>,
       <<"s", "a", "n", "c", "t", "i", "o", "n", "s">>,
       <<"M", "i", "d", "d", "l", "e", " ", "E", "a", "s", "t">>,
       <<"a", "t", "t", "a", "c", "k">>,
       <<"e", "x", "p", "o", "r", "t">>,
       <<"w", "a", "r">>,
       <<"s", "u", "p", "p", "l", "y">> >>

(* any(k in e.title.lower() for k in NEWS_KEYWORDS) *)
title_matches(title) ==
    \E j \in 1..Len(NEWS_KEYWORDS) : Contains(lower(title), NEWS_KEYWORDS[j])

(* The for loop of check_news from entry i on.  An entry without a publish *)
(* time (published_parsed is None) raises.  The text of a message is the   *)
(* title; the record also notes the publish time of the entry it is about. *)
RECURSIVE news_loop(_, _, _, _)
news_loop(r, entries, i, sinkUp) ==
    IF r.raised \/ i > Len(entries) \/ i > NEWS_FIRST THEN r
    ELSE IF entries[i].published_parsed = None THEN Raise(r)
    ELSE LET e == entries[i]
             published == astimezone(e.published_parsed)
         IN  IF published > r.state.last_news_time /\ title_matches(e.title)
             THEN LET s == send(r, [kind |-> "HEADLINE", title |-> e.title,
                                   published |-> published], sinkUp)
                  IN  news_loop(Assign(s, [s.state EXCEPT !.last_news_time = published]),
                                entries, i + 1, sinkUp)
             ELSE news_loop(r, entries, i + 1, sinkUp)

(* The loop with the watermark read once before it: every entry is         *)
(* compared with the watermark held at the start of the invocation.        *)
RECURSIVE news_loop_stale(_, _, _, _, _)
news_loop_stale(r, wm, entries, i, sinkUp) ==
    IF r.raised \/ i > Len(entries) \/ i > NEWS_FIRST THEN r
    ELSE IF entries[i].published_parsed = None THEN Raise(r)
    ELSE LET e == entries[i]
             published == astimezone(e.published_parsed)
         IN  IF published > wm /\ title_matches(e.title)
             THEN LET s == send(r, [kind |-> "HEADLINE", title |-> e.title,
                                   published |-> published], sinkUp)
                  IN  news_loop_stale(
                          Assign(s, [s.state EXCEPT !.last_news_time = published]),
                          wm, entries, i + 1, sinkUp)
             ELSE news_loop_stale(r, wm, entries, i + 1, sinkUp)

(* The loop with `>=` for `>`: an entry published at the watermark counts  *)
(* as new.                                                                 *)
RECURSIVE news_loop_at_or_after(_, _, _, _)
news_loop_at_or_after(r, entries, i, sinkUp) ==
    IF r.raised \/ i > Len(entries) \/ i > NEWS_FIRST THEN r
    ELSE IF entries[i].published_parsed = None THEN Raise(r)
    ELSE LET e == entries[i]
             published == astimezone(e.published_parsed)
         IN  IF published >= r.state.last_news_time /\ title_matches(e.title)
             THEN LET s == send(r, [kind |-> "HEADLINE", title |-> e.title,
                                   published |-> published], sinkUp)
                  IN  news_loop_at_or_after(
                          Assign(s, [s.state EXCEPT !.last_news_time = published]),
                          entries, i + 1, sinkUp)
             ELSE news_loop_at_or_after(r, entries, i + 1, sinkUp)

check_news_at_or_after(st, entries, sinkUp) ==
    news_loop_at_or_after(Running(st), entries, 1, sinkUp)

check_news_stale_watermark(st, entries, sinkUp) ==
    news_loop_stale(Running(st), st.last_news_time, entries, 1, sinkUp)

check_news(st, entries, sinkUp) == news_loop(Running(st), entries, 1, sinkUp)

-----------------------------------------------------------------------------
(* Specification SpecNews: check_news() called tick after tick on a        *)
(* freshly parsed feed.                                                    *)

MaxNewsTicks == 2
MaxFeed == 2
NewsStarts == {8 * HourSecs}

T_OIL == <<"O", "i", "l">>
T_RAIN == <<"R", "a", "i", "n">>
T_OPEC == <<"O", "P", "E", "C">>

(* Publish times (UTC): at the initial watermark, and two later ones. *)
PubTimes == {k * (HourSecs \div 2) : k \in 1..3}

Entry(p, title) == [published_parsed |-> p, title |-> title]
(* An entry without a publish time *)
Undated == Entry(None, T_OIL)

(* Fresh items whose title is a keyword configured in capitals, and one    *)
(* that holds no keyword                                                   *)
Capitals == Entry(3 * (HourSecs \div 2), T_OPEC)
Unrelated == Entry(3 * (HourSecs \div 2), T_RAIN)

Entries ==
    {Entry(p, T_OIL) : p \in PubTimes} \cup {Unrelated, Undated, Capitals}

Feeds == SeqsUpTo(Entries, MaxFeed)

(* The entries check_news looks at, and the matching ones among them *)
Examined(entries) ==
    {i \in 1..Len(entries) : i <= NEWS_FIRST}
MatchingTimes(entries) ==
    {astimezone(entries[i].published_parsed) :
        i \in {j \in Examined(entries) : title_matches(entries[j].title)}}

InitNews ==
    /\ now \in NewsStarts
    /\ loop_now = now
    /\ ticks = 0
    /\ pc = "running"
    /\ inv = NoCall
    /\ state = InitState(now)
    /\ sent = <<>>
    /\ bars = Fetched(<<>>)
    /\ feed = <<>>
    /\ hist = HistInit(now)

NewsTick ==
    /\ pc = "running"
    /\ ticks < MaxNewsTicks
    /\ \E entries \in Feeds, sinkUp \in BOOLEAN :
          \E r \in {check_news(state, entries, sinkUp)} :
              /\ now' = now + TICK_SLEEP
              /\ ticks' = ticks + 1
              /\ feed' = entries
              /\ state' = r.state
              /\ sent' = r.sent
              /\ pc' = IF r.raised THEN "crashed" ELSE "running"
              /\ hist' = [hist EXCEPT !.before = state, !.headlines = @ \o r.sent]
              /\ UNCHANGED <<loop_now, inv, bars>>

NextNews == NewsTick

SpecNews == InitNews /\ [][NextNews]_vars

(* C7: last_news_time never decreases, whatever the order of the feed      *)
(* entries; after an invocation that processed the feed it is the latest   *)
(* of the previous watermark and the publish times of the matching         *)
(* entries, so an older item returned after a newer one does not move it   *)
(* back.                                                                   *)
C7_WatermarkMonotone ==
    /\ state.last_news_time >= hist.before.last_news_time
    /\ (ticks > 0 /\ pc = "running") =>
          state.last_news_time =
              Max({hist.before.last_news_time} \cup MatchingTimes(feed))

(* A matching older item came after a matching newer one, both newer than  *)
(* the watermark, and the watermark is the newer one's publish time.       *)
C7_Witness ==
    /\ pc = "running"
    /\ Len(feed) = 2
    /\ title_matches(feed[1].title) /\ title_matches(feed[2].title)
    /\ feed[2].published_parsed < feed[1].published_parsed
    /\ astimezone(feed[2].published_parsed) > hist.before.last_news_time
    /\ state.last_news_time = astimezone(feed[1].published_parsed)

(* C13: one invocation of a detector calls send at most once, whatever the *)
(* feed (here check_news; several of the first five entries may match and  *)
(* carry increasing publish times).                                        *)
C13_AtMostOneAlert ==
    Len(sent) <= 1

(* The feed entry a headline alert is about *)
AlertedEntry(msg) == [title |-> msg.title, published |-> msg.published]

(* C14: over the invocations of check_news, no feed entry (title and       *)
(* publish time) is alerted twice, however often the feed returns it.      *)
C14_NoEntryAlertedTwice ==
    \A i, j \in 1..Len(hist.headlines) :
        i # j => AlertedEntry(hist.headlines[i]) # AlertedEntry(hist.headlines[j])

(* C16: one invocation of check_news alerts every examined entry that     *)
(* matches a keyword and was published after the watermark held when the   *)
(* invocation began, in whatever order the feed returns the entries.       *)
C16_EveryNewItemAlerted ==
    (pc = "running" /\ ticks > 0) =>
        \A i \in Examined(feed) :
            ( /\ title_matches(feed[i].title)
              /\ astimezone(feed[i].published_parsed) > hist.before.last_news_time )
                => \E j \in 1..Len(sent) :
                      AlertedEntry(sent[j]) =
                          [title |-> feed[i].title,
                           published |-> astimezone(feed[i].published_parsed)]

(* The title contains keyword k in some letter case. *)
ContainsAnyCase(title, k) == Contains(lower(title), lower(k))

(* C17: a title that contains a configured keyword in any letter case is a *)
(* match: when the first entry of the feed is such an item, published      *)
(* after the watermark, check_news alerts it.                              *)
C17_CaseInsensitive ==
    ( /\ pc = "running" /\ ticks > 0 /\ Len(feed) > 0
      /\ \E j \in 1..Len(NEWS_KEYWORDS) : ContainsAnyCase(feed[1].title, NEWS_KEYWORDS[j])
      /\ astimezone(feed[1].published_parsed) > hist.before.last_news_time )
        => /\ Len(sent) > 0
           /\ sent[1].title = feed[1].title

(* An entry alerted by an earlier invocation came back at the head of the  *)
(* feed and the invocation sent nothing.                                   *)
C14_Witness ==
    /\ pc = "running"
    /\ ticks > 1
    /\ Len(feed) > 0
    /\ sent = <<>>
    /\ \E i \in 1..Len(hist.headlines) :
          AlertedEntry(hist.headlines[i]) =
              [title |-> feed[1].title,
               published |-> astimezone(feed[1].published_parsed)]


-----------------------------------------------------------------------------
(* Inventory events *)

EXPECTED_API == -150        \* -1.5 M, in hundredths
EXPECTED_EIA == -200        \* -2.0 M
INVENTORY_WAIT == 900       \* time.sleep(900) inside inventory
EVENT_SLEEP == 3600         \* time.sleep(3600) after inventory returns
API_WEEKDAY == 1            \* Tuesday
EIA_WEEKDAY == 2            \* Wednesday
EVENT_HOUR == 20

(* inventory() up to time.sleep(900): the pre price and the release alert. *)
inventory_pre(st, name, data, sinkUp) ==
    LET r0 == Running(st)
    IN  IF ~data.ok \/ Len(data.rows) = 0 THEN Raise(r0)     \* .iloc[-1]
        ELSE send(r0, [kind |-> "RELEASE", name |-> name,
                       pre |-> data.rows[Len(data.rows)].Close], sinkUp)

(* inventory() after its sleep with the name of the API event written     *)
(* into the summary instead of the caller's.                               *)
inventory_post_api_name(st, call, data, eia, sinkUp) ==
    LET r0 == Running(st)
    IN  IF ~data.ok \/ Len(data.rows) = 0 THEN Raise(r0)
        ELSE IF call.is_eia /\ ~eia.ok THEN Raise(r0)
        ELSE LET post == data.rows[Len(data.rows)].Close
                 actual == IF call.is_eia THEN eia.value ELSE call.expected
                 bias == IF actual < call.expected THEN "Bullish" ELSE "Bearish"
             IN  send(r0, [kind |-> "SUMMARY", name |-> "API Inventory",
                           expected |-> call.expected, actual |-> actual,
                           pre |-> call.pre, post |-> post, bias |-> bias], sinkUp)

(* inventory() after time.sleep(900): the post price, the actual value     *)
(* (fetch_eia() for the EIA event, the expected value otherwise), the bias *)
(* and the summary alert.                                                  *)
inventory_post(st, call, data, eia, sinkUp) ==
    LET r0 == Running(st)
    IN  IF ~data.ok \/ Len(data.rows) = 0 THEN Raise(r0)
        ELSE IF call.is_eia /\ ~eia.ok THEN Raise(r0)
        ELSE LET post == data.rows[Len(data.rows)].Close
                 actual == IF call.is_eia THEN eia.value ELSE call.expected
                 bias == IF actual < call.expected THEN "Bullish" ELSE "Bearish"
             IN  send(r0, [kind |-> "SUMMARY", name |-> call.name,
                           expected |-> call.expected, actual |-> actual,
                           pre |-> call.pre, post |-> post, bias |-> bias], sinkUp)

(* The sleeps taken for milliseconds: the sequence holds the loop up for   *)
(* four seconds.                                                           *)
BlocksMilliseconds == (INVENTORY_WAIT + EVENT_SLEEP) \div 1000

(* The time main stays blocked once an inventory sequence has started:     *)
(* the sleep inside inventory and the one after it.                        *)
InventoryBlocks == INVENTORY_WAIT + EVENT_SLEEP

(* The scheduled-window tests of main *)
api_window(t) == weekday(t) = API_WEEKDAY /\ hour(t) = EVENT_HOUR /\ minute(t) = 0
eia_window(t) == weekday(t) = EIA_WEEKDAY /\ hour(t) = EVENT_HOUR /\ minute(t) = 0


-----------------------------------------------------------------------------
(* Specification Spec: main().  One action per statement of the loop body; *)
(* an exception raised by a callee propagates out of main (the loop has no *)
(* try/except) and ends the process.                                       *)

MaxTicks == 3
Stalls == {0, HourSecs \div 2}      \* time an iteration takes beyond the sleep
TuesdayEvening == DaySecs + EVENT_HOUR * HourSecs
Starts == {ASIA_HOUR * HourSecs - TICK_SLEEP,
           TuesdayEvening - TICK_SLEEP,
           DaySecs + TuesdayEvening}

Bars1m == {Fetched(<<>>), FetchError} \cup {Fetched(<<Bar(p)>>) : p \in Prices1h}

(* What the detectors fetch inside main: a failed fetch, series too short  *)
(* for the detector, and one quiet and one alerting series each.           *)
MainBars1h ==
    {FetchError, Fetched(<<>>), Fetched(Flat(1)), Fetched(Flat(2)),
     Fetched(<<Bar(BasePrice), Bar(BasePrice + 120)>>)}

MainBars15m ==
    {FetchError, Fetched(<<>>), Fetched(Flat(1)), Fetched(Flat(RSI_PERIOD)),
     Fetched(Saw(7, 1, 1)), Fetched(Saw(8, 3, 1))}

MainBars5m ==
    {FetchError, Fetched(<<>>),
     Fetched(<<[High |-> BasePrice, Close |-> BasePrice - 10]>>),
     Fetched(<<[High |-> BasePrice,      Close |-> BasePrice - 10],
               [High |-> BasePrice + 50, Close |-> BasePrice - 10],
               [High |-> BasePrice,      Close |-> BasePrice - 10]>>)}

(* The feed parsed at local time t: empty, a matching and a non-matching   *)
(* item published a minute before, an item without a publish time.         *)
MainFeeds(t) ==
    {<<>>, <<Undated>>,
     <<Entry(t - TZ_OFFSET - 60, T_OIL)>>, <<Entry(t - TZ_OFFSET - 60, T_RAIN)>>}

EiaFetches ==
    {[ok |-> TRUE, value |-> EXPECTED_EIA + d] : d \in {-50, 0, 50}}
        \cup {[ok |-> FALSE, value |-> 0]}

Init ==
    /\ now \in Starts
    /\ loop_now = now
    /\ ticks = 0
    /\ pc = "start"
    /\ state = InitState(now)
    /\ inv = NoCall
    /\ sent = <<>>
    /\ bars = Fetched(<<>>)
    /\ feed = <<>>
    /\ hist = HistInit(now)

(* What a step of main leaves behind: the callee's ledger and messages,    *)
(* what it fetched, and the next statement, or the end of the process when *)
(* it raised.                                                              *)
Unfetched == Fetched(<<>>)

Step(name, r, next, data, entries) ==
    /\ state' = r.state
    /\ sent' = r.sent
    /\ bars' = data
    /\ feed' = entries
    /\ pc' = IF r.raised THEN "crashed" ELSE next
    /\ hist' = [hist EXCEPT !.step = name, !.before = state]

(* send("Crude Master Bot LIVE (IST)") *)
Start ==
    /\ pc = "start"
    /\ \E sinkUp \in BOOLEAN :
          Step("start", send(Running(state), [kind |-> "LIVE"], sinkUp), "top",
               Unfetched, <<>>)
    /\ UNCHANGED <<now, loop_now, ticks, inv>>

(* now = datetime.now(TZ) *)
Top ==
    /\ pc = "top"
    /\ ticks < MaxTicks
    /\ loop_now' = now
    /\ ticks' = ticks + 1
    /\ Step("top", Running(state), "session", Unfetched, <<>>)
    /\ UNCHANGED <<now, inv>>

Session ==
    /\ pc = "session"
    /\ \E sinkUp \in BOOLEAN :
          Step("session", session_alerts(state, loop_now, sinkUp), "vol",
               Unfetched, <<>>)
    /\ UNCHANGED <<now, loop_now, ticks, inv>>

Vol ==
    /\ pc = "vol"
    /\ \E data \in MainBars1h, sinkUp \in BOOLEAN :
          \E r \in {check_1h_vol(state, data, now, sinkUp)} :
              Step("vol", r, "rsi", data, <<>>)
    /\ UNCHANGED <<now, loop_now, ticks, inv>>

Rsi ==
    /\ pc = "rsi"
    /\ \E data \in MainBars15m, sinkUp \in BOOLEAN :
          \E r \in {rsi_alert(state, data, now, sinkUp)} :
              Step("rsi", r, "fb", data, <<>>)
    /\ UNCHANGED <<now, loop_now, ticks, inv>>

FB ==
    /\ pc = "fb"
    /\ \E data \in MainBars5m, sinkUp \in BOOLEAN :
          \E r \in {false_breakout(state, data, now, sinkUp)} :
              Step("fb", r, "news", data, <<>>)
    /\ UNCHANGED <<now, loop_now, ticks, inv>>

News ==
    /\ pc = "news"
    /\ \E entries \in MainFeeds(now), sinkUp \in BOOLEAN :
          \E r \in {check_news(state, entries, sinkUp)} :
              Step("news", r, "api", Unfetched, entries)
    /\ UNCHANGED <<now, loop_now, ticks, inv>>

(* An `if` of main whose window test fails *)
SkipEvent(name, next) ==
    /\ Step(name, Running(state), next, Unfetched, <<>>)
    /\ UNCHANGED <<now, loop_now, ticks, inv>>

(* An `if` of main whose window test holds: inventory() is called and runs *)
(* up to its sleep.                                                        *)
BeginEvent(name, expected, is_eia, wait) ==
    \E data \in Bars1m, sinkUp \in BOOLEAN :
        \E r \in {inventory_pre(state, name, data, sinkUp)} :
            /\ state' = r.state
            /\ sent' = r.sent
            /\ bars' = data
            /\ feed' = <<>>
            /\ pc' = IF r.raised THEN "crashed" ELSE wait
            /\ inv' = IF r.raised THEN NoCall
                      ELSE [name |-> name, expected |-> expected, is_eia |-> is_eia,
                            pre |-> data.rows[Len(data.rows)].Close]
            /\ hist' = [hist EXCEPT !.step = name, !.before = state,
                                    !.starts = Append(@, [name |-> name, at |-> loop_now])]
            /\ UNCHANGED <<now, loop_now, ticks>>

(* The rest of inventory() after its sleep, then main's time.sleep(3600) *)
EndEvent(name, next) ==
    \E data \in Bars1m, eia \in EiaFetches, sinkUp \in BOOLEAN :
        \E r \in {inventory_post(state, inv, data, eia, sinkUp)} :
            /\ now' = now + InventoryBlocks
            /\ inv' = NoCall
            /\ Step(name, r, next, data, <<>>)
            /\ UNCHANGED <<loop_now, ticks>>

Api ==
    /\ pc = "api"
    /\ IF api_window(loop_now)
       THEN BeginEvent("API Inventory", EXPECTED_API, FALSE, "api_wait")
       ELSE SkipEvent("api", "eia")

ApiSummary ==
    /\ pc = "api_wait"
    /\ EndEvent("api_summary", "eia")

Eia ==
    /\ pc = "eia"
    /\ IF eia_window(loop_now)
       THEN BeginEvent("EIA Inventory", EXPECTED_EIA, TRUE, "eia_wait")
       ELSE SkipEvent("eia", "sleep")

EiaSummary ==
    /\ pc = "eia_wait"
    /\ EndEvent("eia_summary", "sleep")

(* time.sleep(30), and whatever else the iteration took *)
Sleep ==
    /\ pc = "sleep"
    /\ \E stall \in Stalls : now' = now + TICK_SLEEP + stall
    /\ Step("sleep", Running(state), "top", Unfetched, <<>>)
    /\ UNCHANGED <<loop_now, ticks, inv>>

Next ==
    \/ Start \/ Top \/ Session \/ Vol \/ Rsi \/ FB \/ News
    \/ Api \/ ApiSummary \/ Eia \/ EiaSummary \/ Sleep

Spec == Init /\ [][Next]_vars


(* C8: for each occurrence of a scheduled window (one wall-clock minute,   *)
(* Tuesday 20:00 for API, Wednesday 20:00 for EIA) main starts the         *)
(* inventory sequence at most once.                                        *)
C8_OncePerWindow ==
    \A i, j \in 1..Len(hist.starts) :
        (i < j /\ hist.starts[i].name = hist.starts[j].name)
            => hist.starts[i].at \div 60 # hist.starts[j].at \div 60

(* A later iteration has tested the windows again after a sequence ran. *)
C8_Witness ==
    /\ Len(hist.starts) = 1
    /\ hist.step \in {"api", "eia"}
    /\ loop_now > hist.starts[1].at

Detectors == {"session", "vol", "rsi", "fb", "news"}

(* C9: a failing detector invocation (a fetch error, an index error on     *)
(* missing data, an unreachable sink) never ends the loop: the remaining   *)
(* detectors of the tick still run.                                        *)
C9_FailureContained ==
    ~(pc = "crashed" /\ hist.step \in Detectors)

(* The number of bars a detector needs *)
Needed(detector) ==
    IF detector = "vol" THEN 2
    ELSE IF detector = "rsi" THEN RSI_PERIOD + 1
    ELSE FB_WINDOW

(* C10: on a fetched series shorter than the detector needs, check_1h_vol, *)
(* rsi_alert and false_breakout return without an alert, without raising   *)
(* and without changing the ledger.                                        *)
C10_ShortSeriesSkipped ==
    ( /\ hist.step \in {"vol", "rsi", "fb"}
      /\ bars.ok
      /\ Len(bars.rows) < Needed(hist.step) )
        => pc # "crashed" /\ sent = <<>> /\ state = hist.before

(* main is inside an inventory sequence: the pre-release alert is out, the *)
(* summary is not.                                                         *)
InSequence == pc \in {"api_wait", "eia_wait"}

(* C18: from the pre-release alert on, the sequence holds the whole loop:   *)
(* the step that follows is the end of the same sequence, 900 s + 3600 s   *)
(* later; no ledger key changes meanwhile, and the only alert sent is the  *)
(* summary of the same event.                                              *)
C18_SequenceBlocks ==
    [][ InSequence =>
          /\ state' = state
          /\ pc' \in {"eia", "sleep", "crashed"}
          /\ pc' # "crashed" =>
                /\ now' = now + INVENTORY_WAIT + EVENT_SLEEP
                /\ Len(sent') = 1
                /\ sent'[1].kind = "SUMMARY"
                /\ sent'[1].name = inv.name ]_vars

(* An EIA sequence has run to its summary. *)
C18_Witness ==
    /\ hist.step = "eia_summary"
    /\ pc = "sleep"
    /\ Len(sent) = 1
    /\ sent[1].kind = "SUMMARY"
    /\ now >= loop_now + INVENTORY_WAIT + EVENT_SLEEP

(* The step of main that may write a key of the ledger *)
Owner(key) ==
    IF key \in {"asia_alerted", "eu_alerted", "us_alerted"} THEN "session"
    ELSE IF key = "last_1h_vol" THEN "vol"
    ELSE IF key = "last_rsi_alert" THEN "rsi"
    ELSE IF key \in {"false_break_time", "false_level"} THEN "fb"
    ELSE "news"

(* C19: every key of the ledger has a single writer: a step of main changes *)
(* only keys owned by the detector it runs.                                 *)
C19_SingleWriter ==
    \A key \in DOMAIN state :
        state[key] # hist.before[key] => hist.step = Owner(key)

(* rsi_alert has just recorded its alert time in a ledger that already     *)
(* holds the volatility detector's.                                        *)
C19_Witness ==
    /\ hist.step = "rsi"
    /\ state.last_rsi_alert # hist.before.last_rsi_alert
    /\ state.last_1h_vol # None
    /\ state.last_1h_vol = hist.before.last_1h_vol

(* The bias the rule gives: bullish below the expectation, bearish above   *)
(* it, neutral on it.                                                      *)
RuleBias(actual, expected) ==
    IF actual < expected THEN "Bullish"
    ELSE IF actual > expected THEN "Bearish"
    ELSE "Neutral"

(* C11: the summary of an inventory event reports the bias of the rule; in *)
(* particular the API event, whose actual is the expected value, is        *)
(* reported neutral.                                                       *)
C11_BiasRule ==
    \A i \in 1..Len(sent) :
        sent[i].kind = "SUMMARY"
            => sent[i].bias = RuleBias(sent[i].actual, sent[i].expected)

=============================================================================
